---- MODULE Spec2Model ----
(***************************************************************************)
(* A model of medhir/yaml-api: the in-memory metadata store (package       *)
(* storage: text normalisation, the per-field inverted index, the          *)
(* AND-intersection query engine) and the HTTP handlers in front of it.    *)
(*                                                                         *)
(* Text is a sequence of one-character strings, a token is such a sequence *)
(* too, a *Metadata pointer is a natural number (the object's identity),   *)
(* and a Go map is a function whose DOMAIN is the set of keys present.     *)
(***************************************************************************)
EXTENDS Integers, Sequences, FiniteSets, TLC

(***************************************************************************)
(* Bounds of the model.                                                    *)
(***************************************************************************)
\* Number of distinct *Metadata objects (pointers 1..MaxDocs).
MaxDocs == 4
\* Number of AddMetadata calls in a run.
MaxAdds == 2
\* Largest number of keys of a LookupMetadata argument.
MaxKeys == 2

\* Largest number of spoilt fields in a document submitted for validation.
MaxDefects == 2

(***************************************************************************)
(* Characters.  unicode.IsLetter / unicode.IsNumber on the characters the  *)
(* model's texts are written in; every other character is a separator.     *)
(***************************************************************************)
UpperRunes ==
    << "A", "B", "C", "D", "E", "F", "G", "H", "I", "J", "K", "L", "M",
       "N", "O", "P", "Q", "R", "S", "T", "U", "V", "W", "X", "Y", "Z" >>

LowerRunes ==
    << "a", "b", "c", "d", "e", "f", "g", "h", "i", "j", "k", "l", "m",
       "n", "o", "p", "q", "r", "s", "t", "u", "v", "w", "x", "y", "z" >>

DigitRunes == { "0", "1", "2", "3", "4", "5", "6", "7", "8", "9" }

Range(s) == { s[i] : i \in DOMAIN s }

IsLetter(r) == r \in Range(UpperRunes) \cup Range(LowerRunes)

IsNumber(r) == r \in DigitRunes

\* strings.ToLower on one character.
ToLowerRune(r) ==
    IF r \in Range(UpperRunes)
    THEN LowerRunes[CHOOSE i \in DOMAIN UpperRunes : UpperRunes[i] = r]
    ELSE r

(***************************************************************************)
(* The normaliser: tokenize, toLowercase, removeCommonWords, stem.         *)
(***************************************************************************)
\* strings.FieldsFunc: cur is the run of letters and digits being read,
\* acc the fields found so far.
RECURSIVE FieldsFunc(_, _, _)
FieldsFunc(text, cur, acc) ==
    IF text = << >>
    THEN IF cur = << >> THEN acc ELSE Append(acc, cur)
    ELSE LET r == Head(text) IN
         IF ~IsLetter(r) /\ ~IsNumber(r)
         THEN FieldsFunc(Tail(text), << >>,
                         IF cur = << >> THEN acc ELSE Append(acc, cur))
         ELSE FieldsFunc(Tail(text), Append(cur, r), acc)

tokenize(text) == FieldsFunc(text, << >>, << >>)

toLowercase(tokens) ==
    [i \in DOMAIN tokens |->
        [j \in DOMAIN tokens[i] |-> ToLowerRune(tokens[i][j])]]

\* The keys of the commonWords map, as written in the source ("I" is upper case).
commonWords ==
    { <<"t","h","e">>, <<"b","e">>, <<"t","o">>, <<"o","f">>,
      <<"a","n","d">>, <<"a">>, <<"i","n">>, <<"t","h","a","t">>,
      <<"h","a","v","e">>, <<"I">>, <<"i","t">>, <<"f","o","r">>,
      <<"n","o","t">>, <<"o","n">>, <<"w","i","t","h">> }

RECURSIVE removeCommonWords(_)
removeCommonWords(tokens) ==
    IF tokens = << >> THEN << >>
    ELSE IF Head(tokens) \in commonWords
         THEN removeCommonWords(Tail(tokens))
         ELSE << Head(tokens) >> \o removeCommonWords(Tail(tokens))

(***************************************************************************)
(* snowball.Stem(token, "english", true) is a library outside the          *)
(* repository; the code reads its two results, the stem and an error.      *)
(* The stems below are those of the words the model's texts use: a word of *)
(* one or two letters is its own stem, "jumped", "rocks", "things" and     *)
(* "emailed" stem as the repository's test asserts, and the English        *)
(* stemmer takes the final s off "its".  Unstemmable is the set of tokens  *)
(* on which the library reports an error: it is what makes the error       *)
(* branch of stem (and of every caller) run.                               *)
(***************************************************************************)
ErrNil == "nil"
ErrStem == "unable to stem token"
ErrUnknownAttribute == "cannot retrieve documents by unknown attribute type"

Unstemmable == { <<"z","z","z">> }

SnowballStem(token) ==
    CASE token = <<"j","u","m","p","e","d">> -> <<"j","u","m","p">>
      [] token = <<"r","o","c","k","s">>     -> <<"r","o","c","k">>
      [] token = <<"t","h","i","n","g","s">> -> <<"t","h","i","n","g">>
      [] token = <<"e","m","a","i","l","e","d">> -> <<"e","m","a","i","l">>
      [] token = <<"i","t","s">>             -> <<"i","t">>
      [] OTHER                               -> token

\* stem: the first token the library rejects fails the whole call.
RECURSIVE stemFrom(_, _)
stemFrom(tokens, stemmedTokens) ==
    IF tokens = << >>
    THEN [tokens |-> stemmedTokens, err |-> ErrNil]
    ELSE IF Head(tokens) \in Unstemmable
         THEN [tokens |-> << >>, err |-> ErrStem]
         ELSE stemFrom(Tail(tokens),
                       Append(stemmedTokens, SnowballStem(Head(tokens))))

stem(tokens) == stemFrom(tokens, << >>)

processText(text) == stem(removeCommonWords(toLowercase(tokenize(text))))

(***************************************************************************)
(* Documents.  A Metadata value is a record of texts; the store holds      *)
(* pointers to Metadata objects.  The objects of a run are the pointers    *)
(* 1..MaxDocs; object md holds Content(md), so two objects can hold equal  *)
(* values and still be different objects.                                  *)
(***************************************************************************)
\* "Its Fox", 1.0.0, two maintainers sharing the tokens fox, gmail, com.
SampleA ==
    [Title |-> <<"I","t","s"," ","F","o","x">>,
     Version |-> <<"1",".","0",".","0">>,
     Maintainers |-> <<
         [Name |-> <<"A","l"," ","F","o","x">>,
          Email |-> <<"a","l","@","g","m","a","i","l",".","c","o","m">>],
         [Name |-> <<"B","o"," ","F","o","x">>,
          Email |-> <<"b","o","@","g","m","a","i","l",".","c","o","m">>] >>,
     Company |-> <<"Q","u","i","c","k">>,
     Website |-> <<"x",":","/","/","w",".","c","o">>,
     Source |-> <<"x",":","/","/","g",".","c","o">>,
     License |-> <<"M","I","T">>,
     Description |-> <<"T","h","e"," ","f","o","x"," ","j","u","m","p","e","d",","," ","t","h","e"," ","f","o","x">>]

\* "Fox", 1.0 (a proper prefix of SampleA's version), one maintainer.
SampleB ==
    [Title |-> <<"F","o","x">>,
     Version |-> <<"1",".","0">>,
     Maintainers |-> <<
         [Name |-> <<"A","l">>,
          Email |-> <<"a","l","@","g","m","a","i","l",".","c","o","m">>] >>,
     Company |-> <<"B","r","o","w","n">>,
     Website |-> <<"x",":","/","/","b",".","c","o">>,
     Source |-> <<"x",":","/","/","g",".","c","o">>,
     License |-> <<"M","I","T">>,
     Description |-> <<"f","o","x"," ","r","o","c","k","s">>]

\* A document whose last indexed field, the description, holds a token the
\* stemmer rejects.
SampleC ==
    [Title |-> <<"Q","u","i","c","k"," ","F","o","x">>,
     Version |-> <<"2",".","0",".","1">>,
     Maintainers |-> <<
         [Name |-> <<"B","o">>,
          Email |-> <<"b","o","@","g","m","a","i","l",".","c","o","m">>] >>,
     Company |-> <<"B","r","o","w","n">>,
     Website |-> <<"x",":","/","/","b",".","c","o">>,
     Source |-> <<"x",":","/","/","g",".","c","o">>,
     License |-> <<"M","I","T">>,
     Description |-> <<"z","z","z"," ","l","e","t","t","e","r">>]

Samples == << SampleA, SampleB, SampleC >>

Docs == 1 .. MaxDocs

Content(md) == Samples[((md - 1) % Len(Samples)) + 1]

(***************************************************************************)
(* The index: one posting store (key -> list of pointers) per field.       *)
(***************************************************************************)
EmptyMap == [k \in {} |-> << >>]

\* NewStorage
NewStorage ==
    [title |-> EmptyMap, version |-> EmptyMap, maintainerName |-> EmptyMap,
     maintainerEmail |-> EmptyMap, company |-> EmptyMap, website |-> EmptyMap,
     source |-> EmptyMap, license |-> EmptyMap, description |-> EmptyMap]

Stores == DOMAIN NewStorage

TokenizedStores == Stores \ { "version" }

\* field[key] of a Go map: the zero value (a nil slice) for an absent key.
MapGet(field, key) == IF key \in DOMAIN field THEN field[key] ELSE << >>

\* field[key] = list
MapPut(field, key, list) ==
    [k \in DOMAIN field \cup {key} |-> IF k = key THEN list ELSE field[k]]

\* IndexToken with the duplicate check cut down to "the list is not empty".
IndexTokenSkipsNonEmpty(field, token, metadata) ==
    LET f1 == IF token \in DOMAIN field THEN field
              ELSE MapPut(field, token, << >>)
    IN  IF Len(f1[token]) > 0
        THEN f1
        ELSE MapPut(f1, token, Append(f1[token], metadata))

\* IndexToken with the duplicate check made against the first element of the
\* list.
IndexTokenChecksFirst(field, token, metadata) ==
    LET f1 == IF token \in DOMAIN field THEN field
              ELSE MapPut(field, token, << >>)
    IN  IF Len(f1[token]) > 0 /\ f1[token][1] = metadata
        THEN f1
        ELSE MapPut(f1, token, Append(f1[token], metadata))

\* IndexToken with the duplicate check made on the documents' values.
IndexTokenComparesValues(field, token, metadata) ==
    LET f1 == IF token \in DOMAIN field THEN field
              ELSE MapPut(field, token, << >>)
    IN  IF /\ Len(f1[token]) > 0
           /\ Content(f1[token][Len(f1[token])]) = Content(metadata)
        THEN f1
        ELSE MapPut(f1, token, Append(f1[token], metadata))

\* IndexToken without the duplicate check.
IndexTokenAlwaysAppends(field, token, metadata) ==
    LET f1 == IF token \in DOMAIN field THEN field
              ELSE MapPut(field, token, << >>)
    IN  MapPut(f1, token, Append(f1[token], metadata))

\* One round of indexField's loop over the tokens.
IndexToken(field, token, metadata) ==
    LET f1 == IF token \in DOMAIN field THEN field
              ELSE MapPut(field, token, << >>)
    IN  IF Len(f1[token]) > 0 /\ f1[token][Len(f1[token])] = metadata
        THEN f1
        ELSE MapPut(f1, token, Append(f1[token], metadata))

RECURSIVE IndexTokens(_, _, _)
IndexTokens(field, tokens, metadata) ==
    IF tokens = << >> THEN field
    ELSE IndexTokens(IndexToken(field, Head(tokens), metadata),
                     Tail(tokens), metadata)

\* indexField that, for a field that is not tokenized, replaces the list of
\* the key by a list of this document alone.
indexFieldOverwrites(text, field, metadata, tok) ==
    IF tok
    THEN LET p == processText(text) IN
         IF p.err # ErrNil
         THEN [field |-> field, err |-> p.err]
         ELSE [field |-> IndexTokens(field, p.tokens, metadata),
               err |-> ErrNil]
    ELSE [field |-> MapPut(field, text, << metadata >>), err |-> ErrNil]

\* indexField: the store after the call, and the error it returns.
indexField(text, field, metadata, tok) ==
    IF tok
    THEN LET p == processText(text) IN
         IF p.err # ErrNil
         THEN [field |-> field, err |-> p.err]
         ELSE [field |-> IndexTokens(field, p.tokens, metadata),
               err |-> ErrNil]
    ELSE LET f1 == IF text \in DOMAIN field THEN field
                   ELSE MapPut(field, text, << >>)
         IN  [field |-> MapPut(f1, text, Append(f1[text], metadata)),
              err |-> ErrNil]

\* AddSteps with the version indexed as a tokenized field.
RECURSIVE MaintainerStepsOfMutant(_)
MaintainerStepsOfMutant(maintainers) ==
    IF maintainers = << >> THEN << >>
    ELSE << [store |-> "maintainerName", text |-> Head(maintainers).Name,
             tok |-> TRUE],
            [store |-> "maintainerEmail", text |-> Head(maintainers).Email,
             tok |-> TRUE] >>
         \o MaintainerStepsOfMutant(Tail(maintainers))

AddStepsTokenizeVersion(m) ==
    << [store |-> "title", text |-> m.Title, tok |-> TRUE],
       [store |-> "version", text |-> m.Version, tok |-> TRUE] >>
    \o MaintainerStepsOfMutant(m.Maintainers)
    \o << [store |-> "company", text |-> m.Company, tok |-> TRUE],
          [store |-> "website", text |-> m.Website, tok |-> TRUE],
          [store |-> "source", text |-> m.Source, tok |-> TRUE],
          [store |-> "license", text |-> m.License, tok |-> TRUE],
          [store |-> "description", text |-> m.Description, tok |-> TRUE] >>

\* The indexField calls of AddMetadata, in the order the code makes them.
RECURSIVE MaintainerSteps(_)
MaintainerSteps(maintainers) ==
    IF maintainers = << >> THEN << >>
    ELSE << [store |-> "maintainerName", text |-> Head(maintainers).Name,
             tok |-> TRUE],
            [store |-> "maintainerEmail", text |-> Head(maintainers).Email,
             tok |-> TRUE] >>
         \o MaintainerSteps(Tail(maintainers))

AddSteps(m) ==
    << [store |-> "title", text |-> m.Title, tok |-> TRUE],
       [store |-> "version", text |-> m.Version, tok |-> FALSE] >>
    \o MaintainerSteps(m.Maintainers)
    \o << [store |-> "company", text |-> m.Company, tok |-> TRUE],
          [store |-> "website", text |-> m.Website, tok |-> TRUE],
          [store |-> "source", text |-> m.Source, tok |-> TRUE],
          [store |-> "license", text |-> m.License, tok |-> TRUE],
          [store |-> "description", text |-> m.Description, tok |-> TRUE] >>

\* One indexField call of AddMetadata on the index.
AddStep(idx, step, metadata) ==
    LET r == indexField(step.text, idx[step.store], metadata, step.tok)
    IN  [index |-> [idx EXCEPT ![step.store] = r.field], err |-> r.err]

\* AddMetadata runs its calls in order and returns at the first error.
RECURSIVE RunAddSteps(_, _, _)
RunAddSteps(idx, steps, metadata) ==
    IF steps = << >> THEN [index |-> idx, err |-> ErrNil]
    ELSE LET r == AddStep(idx, Head(steps), metadata) IN
         IF r.err # ErrNil THEN r
         ELSE RunAddSteps(r.index, Tail(steps), metadata)

AddMetadata(idx, metadata) ==
    RunAddSteps(idx, AddSteps(Content(metadata)), metadata)

(***************************************************************************)
(* The query engine.                                                       *)
(***************************************************************************)
\* The orders in which a range over a map with key set S can visit its keys.
Orderings(S) ==
    { o \in [1 .. Cardinality(S) -> S] :
        \A i, j \in 1 .. Cardinality(S) : i # j => o[i] # o[j] }

IsIn(md, slice) == \E i \in DOMAIN slice : slice[i] = md

\* intersection that returns both lists, one after the other.
intersectionConcat(slice1, slice2) == slice1 \o slice2

\* intersection that returns slice2 without looking for its entries in slice1.
intersectionSecondOnly(slice1, slice2) ==
    SelectSeq(slice2, LAMBDA md : TRUE)

\* intersection that returns its entries last first.
intersectionReversed(slice1, slice2) ==
    LET kept == SelectSeq(slice2, LAMBDA md : IsIn(md, slice1)) IN
    [i \in 1 .. Len(kept) |-> kept[Len(kept) + 1 - i]]

\* intersection: the entries of slice2 that occur in slice1, in slice2's order.
intersection(slice1, slice2) ==
    SelectSeq(slice2, LAMBDA md : IsIn(md, slice1))

\* matchAllTerms that returns the first key's list without intersecting.
matchAllTermsFirstKey(resultSet, keys) ==
    IF Len(keys) <= 0 THEN << >> ELSE resultSet[keys[1]]

RECURSIVE IntersectRest(_, _, _, _)
IntersectRest(result, resultSet, keys, i) ==
    IF i > Len(keys) THEN result
    ELSE IntersectRest(intersection(result, resultSet[keys[i]]),
                       resultSet, keys, i + 1)

\* matchAllTerms; keys is the order in which the range over resultSet
\* appended the keys.
matchAllTerms(resultSet, keys) ==
    IF Len(keys) <= 0 THEN << >>
    ELSE IF Len(keys) = 1 THEN resultSet[keys[1]]
    ELSE IntersectRest(intersection(resultSet[keys[1]], resultSet[keys[2]]),
                       resultSet, keys, 3)

\* ResultsByToken without the append of the posting list (line 160).
RECURSIVE ResultsByTokenNoCopy(_, _, _)
ResultsByTokenNoCopy(tokens, resultSet, field) ==
    IF tokens = << >> THEN resultSet
    ELSE ResultsByTokenNoCopy(Tail(tokens),
                              MapPut(resultSet, Head(tokens), << >>), field)

\* ResultsByToken that passes over a token the store has no key for.
RECURSIVE ResultsByTokenSkipAbsent(_, _, _)
ResultsByTokenSkipAbsent(tokens, resultSet, field) ==
    IF tokens = << >> THEN resultSet
    ELSE IF Head(tokens) \notin DOMAIN field
         THEN ResultsByTokenSkipAbsent(Tail(tokens), resultSet, field)
         ELSE ResultsByTokenSkipAbsent(
                  Tail(tokens),
                  MapPut(resultSet, Head(tokens),
                         << >> \o MapGet(field, Head(tokens))),
                  field)

RECURSIVE ResultsByToken(_, _, _)
ResultsByToken(tokens, resultSet, field) ==
    IF tokens = << >> THEN resultSet
    ELSE ResultsByToken(Tail(tokens),
                        MapPut(resultSet, Head(tokens),
                               << >> \o MapGet(field, Head(tokens))),
                        field)

\* getResultsByToken that creates an empty posting list for every token the
\* store has no key for, as indexField does (lines 46-49).
RECURSIVE CreateKeys(_, _)
CreateKeys(tokens, field) ==
    IF tokens = << >> THEN field
    ELSE CreateKeys(Tail(tokens),
                    IF Head(tokens) \in DOMAIN field THEN field
                    ELSE MapPut(field, Head(tokens), << >>))

getResultsByTokenCreatesKeys(searchInput, resultSet, field) ==
    LET p == processText(searchInput) IN
    IF p.err # ErrNil
    THEN [resultSet |-> resultSet, err |-> p.err, field |-> field]
    ELSE [resultSet |-> ResultsByToken(p.tokens, resultSet, field),
          err |-> ErrNil, field |-> CreateKeys(p.tokens, field)]

\* getResultsByToken: the result set, the error, and the store it read
\* (a map is passed by reference, so the callee could write to it).
getResultsByToken(searchInput, resultSet, field) ==
    LET p == processText(searchInput) IN
    IF p.err # ErrNil
    THEN [resultSet |-> resultSet, err |-> p.err, field |-> field]
    ELSE [resultSet |-> ResultsByToken(p.tokens, resultSet, field),
          err |-> ErrNil, field |-> field]

\* The attribute constants and the index field each selects.
AttrStore ==
    [title |-> "title", version |-> "version",
     maintainer_name |-> "maintainerName",
     maintainer_email |-> "maintainerEmail", company |-> "company",
     website |-> "website", source |-> "source", license |-> "license",
     description |-> "description"]

Attributes == DOMAIN AttrStore

\* retrieveDocuments: every outcome the call can have (one per order in
\* which matchAllTerms may visit the result set): the documents, the error
\* and the index after the call.
retrieveDocuments(idx, attr, searchInput) ==
    IF attr \notin Attributes
    THEN { [docs |-> << >>, err |-> ErrUnknownAttribute, index |-> idx] }
    ELSE IF attr = "version"
    THEN LET resultSet ==
                 MapPut(EmptyMap, searchInput,
                        MapGet(EmptyMap, searchInput)
                            \o MapGet(idx.version, searchInput))
         IN  { [docs |-> matchAllTerms(resultSet, keys), err |-> ErrNil,
                index |-> idx] : keys \in Orderings(DOMAIN resultSet) }
    ELSE LET g == getResultsByToken(searchInput, EmptyMap, idx[AttrStore[attr]])
             idx1 == [idx EXCEPT ![AttrStore[attr]] = g.field]
         IN  IF g.err # ErrNil
             THEN { [docs |-> << >>, err |-> g.err, index |-> idx1] }
             ELSE { [docs |-> matchAllTerms(g.resultSet, keys),
                     err |-> ErrNil, index |-> idx1] :
                    keys \in Orderings(DOMAIN g.resultSet) }

\* LookupLoop that goes on to the next field when a field's retrieval fails.
RECURSIVE LookupLoopSkipsErrors(_, _, _, _)
LookupLoopSkipsErrors(idx, attrsAndValues, order, resultSet) ==
    IF order = << >>
    THEN { [resultSet |-> resultSet, err |-> ErrNil, index |-> idx] }
    ELSE LET k == Head(order) IN
         UNION { IF r.err # ErrNil
                 THEN LookupLoopSkipsErrors(r.index, attrsAndValues,
                                            Tail(order), resultSet)
                 ELSE LookupLoopSkipsErrors(r.index, attrsAndValues,
                                            Tail(order),
                                            MapPut(resultSet, k, r.docs)) :
                 r \in retrieveDocuments(idx, k, attrsAndValues[k]) }

\* The loop of LookupMetadata over attrsAndValues, visited in `order`.
RECURSIVE LookupLoop(_, _, _, _)
LookupLoop(idx, attrsAndValues, order, resultSet) ==
    IF order = << >>
    THEN { [resultSet |-> resultSet, err |-> ErrNil, index |-> idx] }
    ELSE LET k == Head(order) IN
         UNION { IF r.err # ErrNil
                 THEN { [resultSet |-> EmptyMap, err |-> r.err,
                         index |-> r.index] }
                 ELSE LookupLoop(r.index, attrsAndValues, Tail(order),
                                 MapPut(resultSet, k, r.docs)) :
                 r \in retrieveDocuments(idx, k, attrsAndValues[k]) }

\* LookupMetadata: every outcome the call can have.
LookupMetadata(idx, attrsAndValues) ==
    UNION { UNION { IF l.err # ErrNil
                    THEN { [docs |-> << >>, err |-> l.err, index |-> l.index] }
                    ELSE { [docs |-> matchAllTerms(l.resultSet, keys),
                            err |-> ErrNil, index |-> l.index] :
                           keys \in Orderings(DOMAIN l.resultSet) } :
                    l \in LookupLoop(idx, attrsAndValues, order, EmptyMap) } :
            order \in Orderings(DOMAIN attrsAndValues) }

(***************************************************************************)
(* The GET handler.                                                        *)
(***************************************************************************)
StatusOK == 200
StatusBadRequest == 400

\* searchTerms[k] = v[0]
FirstValues(values) == [k \in DOMAIN values |-> values[k][1]]

\* handleGetMetadata: the status answered, the documents written, the index.
handleGetMetadata(idx, values) ==
    { IF r.err # ErrNil
      THEN [status |-> StatusBadRequest, docs |-> << >>, err |-> r.err,
            index |-> r.index]
      ELSE [status |-> StatusOK, docs |-> r.docs, err |-> ErrNil,
            index |-> r.index] :
      r \in LookupMetadata(idx, FirstValues(values)) }

(***************************************************************************)
(* Validation of a submitted document.  The version parser, the URL parser *)
(* and the MX resolver are outside the repository: they are modelled by    *)
(* what they accept of the texts a document can hold here.                 *)
(***************************************************************************)
\* strings.Index for a one-character separator: 0 when absent.
RECURSIVE IndexByteFrom(_, _, _)
IndexByteFrom(text, ch, i) ==
    IF i > Len(text) THEN 0
    ELSE IF text[i] = ch THEN i
    ELSE IndexByteFrom(text, ch, i + 1)

IndexByte(text, ch) == IndexByteFrom(text, ch, 1)

\* strings.Split for a one-character separator.
RECURSIVE Split(_, _)
Split(text, sep) ==
    LET i == IndexByte(text, sep) IN
    IF i = 0 THEN << text >>
    ELSE << SubSeq(text, 1, i - 1) >> \o Split(SubSeq(text, i + 1, Len(text)), sep)

\* [a-zA-Z]
LetterRunes == Range(UpperRunes) \cup Range(LowerRunes)

\* [a-zA-Z0-9]
AlnumRunes == LetterRunes \cup DigitRunes

AllDigits(text) ==
    text # << >> /\ \A i \in DOMAIN text : text[i] \in DigitRunes

\* semver.NewVersion succeeds: an optional "v", one to three dot-separated
\* numbers, then an optional -prerelease and an optional +metadata.
NewVersionOk(version) ==
    LET noV == IF version # << >> /\ version[1] = "v" THEN Tail(version)
               ELSE version
        plus == IndexByte(noV, "+")
        noMeta == IF plus = 0 THEN noV ELSE SubSeq(noV, 1, plus - 1)
        meta == IF plus = 0 THEN << >> ELSE SubSeq(noV, plus + 1, Len(noV))
        dash == IndexByte(noMeta, "-")
        core == IF dash = 0 THEN noMeta ELSE SubSeq(noMeta, 1, dash - 1)
        pre == IF dash = 0 THEN << >>
               ELSE SubSeq(noMeta, dash + 1, Len(noMeta))
        parts == Split(core, ".")
        Ident(t) == /\ t # << >>
                    /\ \A i \in DOMAIN t : t[i] \in AlnumRunes \cup {"-", "."}
    IN  /\ Len(parts) \in 1 .. 3
        /\ \A i \in DOMAIN parts : AllDigits(parts[i])
        /\ plus # 0 => Ident(meta)
        /\ dash # 0 => Ident(pre)

\* emailRegex: the characters of the local part (the quote characters of the
\* class are left out: no text here holds one).
EmailLocalRunes ==
    AlnumRunes \cup { ".", "!", "#", "$", "%", "&", "*", "+", "/", "=",
                      "?", "^", "_", "{", "|", "}", "~", "-" }

\* emailRegex: one label of the domain.
DomainLabel(label) ==
    /\ Len(label) \in 1 .. 63
    /\ label[1] \in AlnumRunes
    /\ label[Len(label)] \in AlnumRunes
    /\ \A i \in DOMAIN label : label[i] \in AlnumRunes \cup {"-"}

\* emailRegex.MatchString
emailRegexMatch(e) ==
    LET at == IndexByte(e, "@")
        labels == Split(SubSeq(e, at + 1, Len(e)), ".")
    IN  /\ at > 1
        /\ \A i \in 1 .. (at - 1) : e[i] \in EmailLocalRunes
        /\ \A i \in DOMAIN labels : DomainLabel(labels[i])

\* The domains net.LookupMX finds a mail exchanger for.
MXDomains == { <<"g","m","a","i","l",".","c","o","m">> }

\* net.LookupMX returns no error and at least one record.
LookupMXOk(domain) == domain \in MXDomains

ErrEmailFormat == "email must be a properly formatted email address"
ErrEmailInvalid == "email must be a valid email address"

\* validateEmail
validateEmail(e) ==
    IF (Len(e) < 3 /\ Len(e) > 254) \/ ~emailRegexMatch(e)
    THEN ErrEmailFormat
    ELSE LET parts == Split(e, "@") IN
         IF ~LookupMXOk(parts[2]) THEN ErrEmailInvalid ELSE ErrNil

\* url.getScheme: the length of the scheme, 0 when the text has none, -1
\* when it starts with a colon.
RECURSIVE getSchemeFrom(_, _)
getSchemeFrom(rawURL, i) ==
    IF i > Len(rawURL) THEN 0
    ELSE IF rawURL[i] \in LetterRunes
         THEN getSchemeFrom(rawURL, i + 1)
    ELSE IF rawURL[i] \in DigitRunes \cup {"+", "-", "."}
         THEN IF i = 1 THEN 0 ELSE getSchemeFrom(rawURL, i + 1)
    ELSE IF rawURL[i] = ":"
         THEN IF i = 1 THEN -1 ELSE i - 1
    ELSE 0

\* url.ParseRequestURI succeeds: an absolute URI or an absolute path.  (The
\* errors of the authority and of percent escapes need runes no document
\* here holds.)
ParseRequestURIOk(rawURL) ==
    /\ rawURL # << >>
    /\ \/ rawURL = << "*" >>
       \/ LET n == getSchemeFrom(rawURL, 1) IN
          /\ n >= 0
          /\ \/ n > 0
             \/ rawURL[1] = "/"

ErrTitle == "metadata must have a title"
ErrVersion == "metadata must have a version"
ErrSemVer == "version must follow the semantic versioning scheme: https://semver.org"
ErrMaintainers == "metadata must have a list of maintainers, each of which has a name and email attribute"
ErrMaintainerName == "maintainer must have a name"
ErrMaintainerEmail == "maintainer must have an email"
ErrCompany == "metadata must have a company"
ErrWebsite == "metadata must have a website"
ErrWebsiteURL == "metadata must have a website with a valid URL"
ErrSource == "metadata must have a source"
ErrSourceURL == "metadata must have a source with a valid URL"
ErrLicense == "metadata must have a license"
ErrDescription == "metadata must have a description"

\* ValidateMetadata, the loop over the maintainers.
RECURSIVE ValidateMaintainers(_)
ValidateMaintainers(maintainers) ==
    IF maintainers = << >> THEN ErrNil
    ELSE LET maintainer == Head(maintainers) IN
         IF maintainer.Name = << >> THEN ErrMaintainerName
         ELSE IF maintainer.Email = << >> THEN ErrMaintainerEmail
         ELSE LET err == validateEmail(maintainer.Email) IN
              IF err # ErrNil THEN err
              ELSE ValidateMaintainers(Tail(maintainers))

\* ValidateMetadata, the checks after the maintainers.
ValidateAfterMaintainers(metadata) ==
    IF metadata.Company = << >> THEN ErrCompany
    ELSE IF metadata.Website = << >> THEN ErrWebsite
    ELSE IF ~ParseRequestURIOk(metadata.Website) THEN ErrWebsiteURL
    ELSE IF metadata.Source = << >> THEN ErrSource
    ELSE IF ~ParseRequestURIOk(metadata.Source) THEN ErrSourceURL
    ELSE IF metadata.License = << >> THEN ErrLicense
    ELSE IF metadata.Description = << >> THEN ErrDescription
    ELSE ErrNil

\* A variant that checks the company, website, source, license and
\* description before the maintainers.
ValidateMetadataMaintainersLast(idx, metadata) ==
    [err |->
        IF metadata.Title = << >> THEN ErrTitle
        ELSE IF metadata.Version = << >> THEN ErrVersion
        ELSE IF ~NewVersionOk(metadata.Version) THEN ErrSemVer
        ELSE IF Len(metadata.Maintainers) = 0 THEN ErrMaintainers
        ELSE LET err == ValidateAfterMaintainers(metadata) IN
             IF err # ErrNil THEN err
             ELSE ValidateMaintainers(metadata.Maintainers),
     index |-> idx,
     metadata |-> metadata]

\* ValidateMetadata(metadata): the error returned, and the store and the
\* document as the call leaves them.
ValidateMetadata(idx, metadata) ==
    [err |->
        IF metadata.Title = << >> THEN ErrTitle
        ELSE IF metadata.Version = << >> THEN ErrVersion
        ELSE IF ~NewVersionOk(metadata.Version) THEN ErrSemVer
        ELSE IF Len(metadata.Maintainers) = 0 THEN ErrMaintainers
        ELSE LET err == ValidateMaintainers(metadata.Maintainers) IN
             IF err # ErrNil THEN err
             ELSE ValidateAfterMaintainers(metadata),
     index |-> idx,
     metadata |-> metadata]

(***************************************************************************)
(* The POST handler and the dispatch on the request method.                *)
(***************************************************************************)
StatusInternalServerError == 500
StatusMethodNotAllowed == 405

ErrReadBody == "could not read request body"
ErrInvalidYAML == "request does not contain valid YAML"
ErrUnimplemented == "unimplemented http handler for method"

\* handlePostMetadata without the call of ValidateMetadata.
handlePostMetadataUnvalidated(idx, body, metadata) ==
    IF body.kind = "unreadable"
    THEN [status |-> StatusBadRequest, err |-> ErrReadBody, index |-> idx,
          called |-> FALSE]
    ELSE IF body.kind # "yaml"
    THEN [status |-> StatusBadRequest, err |-> ErrInvalidYAML, index |-> idx,
          called |-> FALSE]
    ELSE LET a == AddMetadata(idx, metadata) IN
         IF a.err # ErrNil
         THEN [status |-> StatusInternalServerError, err |-> a.err,
               index |-> a.index, called |-> TRUE]
         ELSE [status |-> StatusOK, err |-> ErrNil, index |-> a.index,
               called |-> TRUE]

\* handlePostMetadata: body is what the request carries (unreadable, not
\* YAML, or the YAML of body.doc), metadata the object yaml.Unmarshal fills.
\* The status answered, the index, and whether AddMetadata was called.
handlePostMetadata(idx, body, metadata) ==
    IF body.kind = "unreadable"
    THEN [status |-> StatusBadRequest, err |-> ErrReadBody, index |-> idx,
          called |-> FALSE]
    ELSE IF body.kind # "yaml"
    THEN [status |-> StatusBadRequest, err |-> ErrInvalidYAML, index |-> idx,
          called |-> FALSE]
    ELSE LET v == ValidateMetadata(idx, body.doc) IN
         IF v.err # ErrNil
         THEN [status |-> StatusBadRequest, err |-> v.err, index |-> v.index,
               called |-> FALSE]
         ELSE LET a == AddMetadata(v.index, metadata) IN
              IF a.err # ErrNil
              THEN [status |-> StatusInternalServerError, err |-> a.err,
                    index |-> a.index, called |-> TRUE]
              ELSE [status |-> StatusOK, err |-> ErrNil, index |-> a.index,
                    called |-> TRUE]

\* handleMetadata, the default branch of the switch on the method.
handleMetadataDefault(idx, method) ==
    [status |-> StatusMethodNotAllowed, err |-> ErrUnimplemented,
     index |-> idx]

(***************************************************************************)
(* Inputs of the calls.                                                    *)
(***************************************************************************)
\* Attribute names a caller passes: the nine recognised ones and another.
AttrNames == Attributes \cup { "nosuch" }

SearchInputs ==
    { <<"f","o","x">>,
      <<"i","t">>,
      <<"i","t","s">>,
      <<"f","o","x"," ","j","u","m","p","e","d">>,
      <<"f","o","x"," ","r","o","c","k","s">>,
      <<"t","h","e">>,
      <<>>,
      <<"1",".","0",".","0">>,
      <<"1",".","0">>,
      <<"z","z","z">>,
      <<"l","e","t","t","e","r">>,
      <<"a","l","@","g","m","a","i","l",".","c","o","m">>,
      <<"Q","u","i","c","k"," ","F","o","x">>,
      <<"I"," ","f","o","x">> }

LookupAttrs == { "title", "version", "description", "nosuch" }

LookupTexts ==
    { <<"f","o","x">>,
      <<"1",".","0",".","0">>,
      <<"z","z","z">> }

LookupInputs ==
    UNION { [S -> LookupTexts] :
            S \in { A \in SUBSET LookupAttrs : Cardinality(A) <= MaxKeys } }

\* URL query values: each key carries a list of values, the first is used.
QueryInputs ==
    UNION { [S -> { << t >> : t \in LookupTexts }
                    \cup { << <<"f","o","x">>, <<"z","z","z">> >> }] :
            S \in { A \in SUBSET LookupAttrs : Cardinality(A) <= MaxKeys } }

\* Documents submitted for validation: the samples, and SampleA with up to
\* MaxDefects of its fields spoilt.
DefectNames ==
    << "title", "version", "semver", "maintainers",
       "name1", "email1", "format1", "mx1",
       "name2", "email2", "format2", "mx2",
       "company", "website", "websiteURL", "source", "sourceURL",
       "license", "description" >>

BadEmail == <<"a","l","g","m","a","i","l",".","c","o","m">>
NoMXEmail == <<"a","l","@","n","o",".","c","o">>
BadURL == <<"x","/","/","w",".","c","o">>

WithMaintainer(m, i, field, text) ==
    IF i \in DOMAIN m.Maintainers
    THEN [m EXCEPT !.Maintainers[i][field] = text]
    ELSE m

WithDefect(m, d) ==
    CASE d = "title" -> [m EXCEPT !.Title = << >>]
      [] d = "version" -> [m EXCEPT !.Version = << >>]
      [] d = "semver" -> [m EXCEPT !.Version = <<"1",".","x">>]
      [] d = "maintainers" -> [m EXCEPT !.Maintainers = << >>]
      [] d = "name1" -> WithMaintainer(m, 1, "Name", << >>)
      [] d = "email1" -> WithMaintainer(m, 1, "Email", << >>)
      [] d = "format1" -> WithMaintainer(m, 1, "Email", BadEmail)
      [] d = "mx1" -> WithMaintainer(m, 1, "Email", NoMXEmail)
      [] d = "name2" -> WithMaintainer(m, 2, "Name", << >>)
      [] d = "email2" -> WithMaintainer(m, 2, "Email", << >>)
      [] d = "format2" -> WithMaintainer(m, 2, "Email", BadEmail)
      [] d = "mx2" -> WithMaintainer(m, 2, "Email", NoMXEmail)
      [] d = "company" -> [m EXCEPT !.Company = << >>]
      [] d = "website" -> [m EXCEPT !.Website = << >>]
      [] d = "websiteURL" -> [m EXCEPT !.Website = BadURL]
      [] d = "source" -> [m EXCEPT !.Source = << >>]
      [] d = "sourceURL" -> [m EXCEPT !.Source = BadURL]
      [] d = "license" -> [m EXCEPT !.License = << >>]
      [] d = "description" -> [m EXCEPT !.Description = << >>]

RECURSIVE WithDefects(_, _, _)
WithDefects(m, D, i) ==
    IF i > Len(DefectNames) THEN m
    ELSE WithDefects(IF DefectNames[i] \in D THEN WithDefect(m, DefectNames[i])
                     ELSE m, D, i + 1)

RECURSIVE DefectSets(_)
DefectSets(n) ==
    IF n = 0 THEN { {} }
    ELSE LET S == DefectSets(n - 1) IN
         S \cup { s \cup {d} : s \in S, d \in Range(DefectNames) }

ValidateInputs ==
    Range(Samples)
    \cup { WithDefects(SampleA, D, 1) : D \in DefectSets(MaxDefects) }

\* The zero Metadata value.
NoDoc ==
    [Title |-> << >>, Version |-> << >>, Maintainers |-> << >>,
     Company |-> << >>, Website |-> << >>, Source |-> << >>,
     License |-> << >>, Description |-> << >>]

\* Request bodies of a POST: unreadable, not YAML, the YAML of a sample, the
\* YAML of SampleA with one field spoilt.
PostBodies ==
    { [kind |-> "unreadable", doc |-> NoDoc],
      [kind |-> "notyaml", doc |-> NoDoc] }
    \cup { [kind |-> "yaml", doc |-> d] : d \in Range(Samples) }
    \cup { [kind |-> "yaml", doc |-> WithDefect(SampleA, d)] :
           d \in Range(DefectNames) }

\* Request methods.
Methods == { "GET", "POST", "PUT", "DELETE" }

(***************************************************************************)
(* The state machine.  Calls on the store are serialised: each action is   *)
(* one whole call, which leaves its outcome in ret until Return.           *)
(***************************************************************************)
VARIABLES
    index,   \* the Storage's index
    pc,      \* "idle", or "done" when a call has just returned
    ret,     \* the last call and what it returned
    nAdds,   \* number of AddMetadata calls made
    calls,   \* the documents AddMetadata was called with, in call order
    inflight \* concurrent AddMetadata calls: document -> indexField calls left

vars == << index, pc, ret, nAdds, calls, inflight >>

NoRet ==
    [op |-> "none", md |-> 0, attr |-> "", text |-> << >>,
     terms |-> EmptyMap, docs |-> << >>, err |-> ErrNil, status |-> 0,
     doc |-> NoDoc, docAfter |-> NoDoc, body |-> "", method |-> "",
     called |-> FALSE]

Init ==
    /\ index = NewStorage
    /\ pc = "idle"
    /\ ret = NoRet
    /\ nAdds = 0
    /\ calls = << >>
    /\ inflight = EmptyMap

CallAddMetadata ==
    /\ pc = "idle"
    /\ nAdds < MaxAdds
    /\ \E md \in Docs :
         LET r == AddMetadata(index, md) IN
         /\ index' = r.index
         /\ ret' = [NoRet EXCEPT !.op = "AddMetadata", !.md = md,
                                 !.err = r.err]
         /\ calls' = Append(calls, md)
    /\ pc' = "done"
    /\ nAdds' = nAdds + 1
    /\ UNCHANGED inflight

CallRetrieveDocuments ==
    /\ pc = "idle"
    /\ \E attr \in AttrNames, searchInput \in SearchInputs :
         \E r \in retrieveDocuments(index, attr, searchInput) :
           /\ index' = r.index
           /\ ret' = [NoRet EXCEPT !.op = "retrieveDocuments", !.attr = attr,
                                   !.text = searchInput, !.docs = r.docs,
                                   !.err = r.err]
    /\ pc' = "done"
    /\ UNCHANGED << nAdds, calls, inflight >>

CallLookupMetadata ==
    /\ pc = "idle"
    /\ \E attrsAndValues \in LookupInputs :
         \E r \in LookupMetadata(index, attrsAndValues) :
           /\ index' = r.index
           /\ ret' = [NoRet EXCEPT !.op = "LookupMetadata",
                                   !.terms = attrsAndValues,
                                   !.docs = r.docs, !.err = r.err]
    /\ pc' = "done"
    /\ UNCHANGED << nAdds, calls, inflight >>

GetMetadata ==
    /\ pc = "idle"
    /\ \E values \in QueryInputs :
         \E r \in handleGetMetadata(index, values) :
           /\ index' = r.index
           /\ ret' = [NoRet EXCEPT !.op = "GET", !.terms = FirstValues(values),
                                   !.docs = r.docs, !.err = r.err,
                                   !.status = r.status]
    /\ pc' = "done"
    /\ UNCHANGED << nAdds, calls, inflight >>

CallValidateMetadata ==
    /\ pc = "idle"
    /\ \E metadata \in ValidateInputs :
         LET r == ValidateMetadata(index, metadata) IN
         /\ index' = r.index
         /\ ret' = [NoRet EXCEPT !.op = "ValidateMetadata", !.doc = metadata,
                                 !.docAfter = r.metadata, !.err = r.err]
    /\ pc' = "done"
    /\ UNCHANGED << nAdds, calls, inflight >>

\* A POST request: metadata is the object the handler allocates, one no
\* earlier call was made with; a body that passes validation is the YAML
\* of one of the documents, and fills the object with it.
PostMetadata ==
    /\ pc = "idle"
    /\ \E body \in PostBodies, metadata \in Docs \ Range(calls) :
         /\ body.doc \in Range(Samples) => Content(metadata) = body.doc
         /\ LET r == handlePostMetadata(index, body, metadata) IN
            /\ r.called => nAdds < MaxAdds
            /\ index' = r.index
            /\ ret' = [NoRet EXCEPT !.op = "POST", !.method = "POST",
                                    !.body = body.kind, !.doc = body.doc,
                                    !.md = IF r.called THEN metadata ELSE 0,
                                    !.called = r.called, !.err = r.err,
                                    !.status = r.status]
            /\ calls' = IF r.called THEN Append(calls, metadata) ELSE calls
            /\ nAdds' = IF r.called THEN nAdds + 1 ELSE nAdds
    /\ pc' = "done"
    /\ UNCHANGED inflight

\* A request with a method other than GET and POST.
OtherMethod ==
    /\ pc = "idle"
    /\ \E method \in Methods \ { "GET", "POST" } :
         LET r == handleMetadataDefault(index, method) IN
         /\ index' = r.index
         /\ ret' = [NoRet EXCEPT !.op = "HTTP", !.method = method,
                                 !.err = r.err, !.status = r.status]
    /\ pc' = "done"
    /\ UNCHANGED << nAdds, calls, inflight >>

Return ==
    /\ pc = "done"
    /\ pc' = "idle"
    /\ ret' = NoRet
    /\ UNCHANGED << index, nAdds, calls, inflight >>

Next ==
    \/ CallAddMetadata
    \/ CallRetrieveDocuments
    \/ CallLookupMetadata
    \/ GetMetadata
    \/ CallValidateMetadata
    \/ PostMetadata
    \/ OtherMethod
    \/ Return

Spec == Init /\ [][Next]_vars

(***************************************************************************)
(* Concurrent handlers.  net/http serves every request on its own          *)
(* goroutine and the Storage has no lock: an AddMetadata call runs its     *)
(* indexField calls one after the other while other calls run in between.  *)
(* A query is taken as one step (it leaves what it saw in ret, then        *)
(* Return).                                                                *)
(***************************************************************************)
\* Queries made while documents are being added.
ConcAttrs == { "title", "version", "description" }

ConcTexts == { <<"f","o","x">>, <<"1",".","0",".","0">> }

ConcLookupInputs ==
    { [a \in ConcAttrs \ {"version"} |-> <<"f","o","x">>],
      [a \in {"title", "version"} |->
          IF a = "version" THEN <<"1",".","0",".","0">> ELSE <<"f","o","x">>] }

\* A goroutine enters AddMetadata(md).
ConcAddBegin ==
    /\ pc = "idle"
    /\ nAdds < MaxAdds
    /\ \E md \in Docs \ DOMAIN inflight :
         /\ inflight' = MapPut(inflight, md, AddSteps(Content(md)))
         /\ calls' = Append(calls, md)
    /\ nAdds' = nAdds + 1
    /\ UNCHANGED << index, pc, ret >>

\* A goroutine in AddMetadata(md) makes its next indexField call; it returns
\* when that call fails or was the last one.
ConcAddStep ==
    /\ pc = "idle"
    /\ \E md \in DOMAIN inflight :
         LET steps == inflight[md]
             r == AddStep(index, Head(steps), md)
         IN  /\ index' = r.index
             /\ inflight' =
                    IF r.err # ErrNil \/ Tail(steps) = << >>
                    THEN [d \in DOMAIN inflight \ {md} |-> inflight[d]]
                    ELSE [inflight EXCEPT ![md] = Tail(steps)]
    /\ UNCHANGED << pc, ret, nAdds, calls >>

ConcRetrieveDocuments ==
    /\ pc = "idle"
    /\ \E attr \in ConcAttrs, searchInput \in ConcTexts :
         \E r \in retrieveDocuments(index, attr, searchInput) :
           /\ index' = r.index
           /\ ret' = [NoRet EXCEPT !.op = "retrieveDocuments", !.attr = attr,
                                   !.text = searchInput, !.docs = r.docs,
                                   !.err = r.err]
    /\ pc' = "done"
    /\ UNCHANGED << nAdds, calls, inflight >>

ConcLookupMetadata ==
    /\ pc = "idle"
    /\ \E attrsAndValues \in ConcLookupInputs :
         \E r \in LookupMetadata(index, attrsAndValues) :
           /\ index' = r.index
           /\ ret' = [NoRet EXCEPT !.op = "LookupMetadata",
                                   !.terms = attrsAndValues,
                                   !.docs = r.docs, !.err = r.err]
    /\ pc' = "done"
    /\ UNCHANGED << nAdds, calls, inflight >>

NextConc ==
    \/ ConcAddBegin
    \/ ConcAddStep
    \/ ConcRetrieveDocuments
    \/ ConcLookupMetadata
    \/ Return

SpecConc == Init /\ [][NextConc]_vars

(***************************************************************************)
(* Concurrent submissions.  The statement                                  *)
(*     field[key] = append(field[key], metadata)                           *)
(* of indexField reads the list and then writes the longer one: another    *)
(* goroutine can run between the two.  Here inflight maps each document    *)
(* being added to the state of its goroutine: the indexField calls left    *)
(* (steps), the store and the keys left of the call it is in, whether that *)
(* call tokenizes, the list it has read (local), where it is (phase:       *)
(* "read" before the tests and the read of a key, "write" before the       *)
(* write, "returned"), and the error it returned.  The read and the write  *)
(* are separate steps in the indexField calls on the stores of RaceStores; *)
(* a call on another store is one step, as in SpecConc.  Every run here is *)
(* a run of the program.                                                   *)
(***************************************************************************)
\* The goroutine after AddMetadata has entered its next indexField call
\* that has a key to index, or has returned.
RECURSIVE EnterCall(_)
EnterCall(steps) ==
    IF steps = << >>
    THEN [steps |-> << >>, store |-> "", tok |-> FALSE, keys |-> << >>,
          local |-> << >>, phase |-> "returned", err |-> ErrNil]
    ELSE LET step == Head(steps)
             p == IF step.tok THEN processText(step.text)
                  ELSE [tokens |-> << step.text >>, err |-> ErrNil]
         IN  IF p.err # ErrNil
             THEN [steps |-> << >>, store |-> "", tok |-> FALSE,
                   keys |-> << >>, local |-> << >>, phase |-> "returned",
                   err |-> p.err]
             ELSE IF p.tokens = << >> THEN EnterCall(Tail(steps))
             ELSE [steps |-> Tail(steps), store |-> step.store,
                   tok |-> step.tok, keys |-> p.tokens, local |-> << >>,
                   phase |-> "read", err |-> ErrNil]

\* The goroutine after it is done with the first of its keys.
NextKey(g) ==
    IF Tail(g.keys) = << >> THEN EnterCall(g.steps)
    ELSE [g EXCEPT !.keys = Tail(g.keys), !.local = << >>, !.phase = "read"]

\* The documents submitted concurrently.
RaceDocs == { 1, 2 }

\* The stores whose indexField calls are followed key by key.
RaceStores == { "title", "version" }

\* A goroutine enters AddMetadata(md).
RaceAddBegin ==
    /\ nAdds < MaxAdds
    /\ \E md \in RaceDocs \ DOMAIN inflight :
         /\ inflight' = MapPut(inflight, md, EnterCall(AddSteps(Content(md))))
         /\ calls' = Append(calls, md)
    /\ nAdds' = nAdds + 1
    /\ UNCHANGED << index, pc, ret >>

\* A goroutine makes a whole indexField call on a store outside RaceStores.
RaceIndexField ==
    /\ \E md \in DOMAIN inflight :
         LET g == inflight[md] IN
         /\ g.phase = "read"
         /\ g.store \notin RaceStores
         /\ index' = [index EXCEPT ![g.store] =
                          IndexTokens(index[g.store], g.keys, md)]
         /\ inflight' = [inflight EXCEPT ![md] = EnterCall(g.steps)]
    /\ UNCHANGED << pc, ret, nAdds, calls >>

\* A goroutine creates the list of its key when there is none, skips the key
\* when the list ends with its document (tokenized fields only), and else
\* reads the list to append to.
RaceRead ==
    /\ \E md \in DOMAIN inflight :
         LET g == inflight[md]
             key == Head(g.keys)
             field == index[g.store]
             f1 == IF key \in DOMAIN field THEN field
                   ELSE MapPut(field, key, << >>)
         IN  /\ g.phase = "read"
             /\ g.store \in RaceStores
             /\ index' = [index EXCEPT ![g.store] = f1]
             /\ inflight' =
                    [inflight EXCEPT ![md] =
                        IF /\ g.tok
                           /\ Len(f1[key]) > 0
                           /\ f1[key][Len(f1[key])] = md
                        THEN NextKey(g)
                        ELSE [g EXCEPT !.local = f1[key], !.phase = "write"]]
    /\ UNCHANGED << pc, ret, nAdds, calls >>

\* A goroutine writes the list it has read, with its document appended.
RaceWrite ==
    /\ \E md \in DOMAIN inflight :
         LET g == inflight[md] IN
         /\ g.phase = "write"
         /\ index' = [index EXCEPT ![g.store] =
                          MapPut(index[g.store], Head(g.keys),
                                 Append(g.local, md))]
         /\ inflight' = [inflight EXCEPT ![md] = NextKey(g)]
    /\ UNCHANGED << pc, ret, nAdds, calls >>

NextRace ==
    \/ RaceAddBegin
    \/ RaceIndexField
    \/ RaceRead
    \/ RaceWrite

SpecRace == Init /\ [][NextRace]_vars

(***************************************************************************)
(* Vocabulary of the properties.                                           *)
(***************************************************************************)
\* The tokenized field values of a document, each with the store it is
\* indexed into.
TokenizedValues(m) ==
    { << "title", m.Title >>, << "company", m.Company >>,
      << "website", m.Website >>, << "source", m.Source >>,
      << "license", m.License >>, << "description", m.Description >> }
    \cup { << "maintainerName", m.Maintainers[i].Name >> :
           i \in DOMAIN m.Maintainers }
    \cup { << "maintainerEmail", m.Maintainers[i].Email >> :
           i \in DOMAIN m.Maintainers }

\* The attribute name under which a store is searched.
StoreAttr(store) == CHOOSE a \in Attributes : AttrStore[a] = store

\* The tokens of a text whose normalisation succeeds (none otherwise).
Tokens(text) == Range(processText(text).tokens)

\* The documents of a list, as a set.
DocSet(slice) == Range(slice)

\* The documents that occur in the posting list of `key` in `store`.
Posting(store, key) == DocSet(MapGet(index[store], key))

\* The documents AddMetadata has put into the version store.
Stored == UNION { DocSet(index.version[k]) : k \in DOMAIN index.version }

AddReturnedNil == pc = "done" /\ ret.op = "AddMetadata" /\ ret.err = ErrNil

SearchReturned == pc = "done" /\ ret.op = "retrieveDocuments"

LookupReturned == pc = "done" /\ ret.op = "LookupMetadata"

(***************************************************************************)
(* C1.  After AddMetadata(D) returns without error, D is in the posting    *)
(* list of every token of every tokenized field value of D (title, each    *)
(* maintainer's name and email, company, website, source, license,         *)
(* description), and in the version posting list under exactly D's version *)
(* string.                                                                 *)
(***************************************************************************)
C1_AddIndexesEveryToken ==
    AddReturnedNil =>
        /\ \A sv \in TokenizedValues(Content(ret.md)) :
             \A t \in Tokens(sv[2]) : ret.md \in Posting(sv[1], t)
        /\ ret.md \in Posting("version", Content(ret.md).Version)

\* A second document with two maintainers is added after another document
\* already filled the posting lists its tokens share.
C1_Witness ==
    /\ AddReturnedNil
    /\ Len(Content(ret.md).Maintainers) = 2
    /\ \E d \in Stored : d # ret.md

(***************************************************************************)
(* C2.  Round trip as claimed: after AddMetadata(D) returns without error, *)
(* for every tokenized field F with value V and every token T of           *)
(* normalize(V), retrieveDocuments(F, T) returns a list that includes D.   *)
(* (The code contradicts this: see C2_RoundTripFixedPointTokens.)          *)
(***************************************************************************)
C2_RoundTripEveryToken ==
    AddReturnedNil =>
        \A sv \in TokenizedValues(Content(ret.md)) :
          \A t \in Tokens(sv[2]) :
            \A r \in retrieveDocuments(index, StoreAttr(sv[1]), t) :
              ret.md \in DocSet(r.docs)

(***************************************************************************)
(* C2, amended.  After AddMetadata(D) returns without error, for every     *)
(* tokenized field F with value V and every token T of normalize(V) that   *)
(* normalisation maps to itself (T is not one of the common words and is   *)
(* its own stem: normalize(T) = [T]), retrieveDocuments(F, T) returns a    *)
(* list that includes D.                                                   *)
(***************************************************************************)
C2_RoundTripFixedPointTokens ==
    AddReturnedNil =>
        \A sv \in TokenizedValues(Content(ret.md)) :
          \A t \in Tokens(sv[2]) :
            (processText(t).err = ErrNil /\ processText(t).tokens = << t >>)
            => \A r \in retrieveDocuments(index, StoreAttr(sv[1]), t) :
                 ret.md \in DocSet(r.docs)

\* A document was added whose title gave a token that is its own
\* normalisation ("fox") and one that is not ("it", from "Its").
C2_Witness ==
    /\ AddReturnedNil
    /\ \E t \in Tokens(Content(ret.md).Title) :
         processText(t).tokens = << t >>
    /\ \E t \in Tokens(Content(ret.md).Title) :
         processText(t).tokens # << t >>

(***************************************************************************)
(* C3.  Multi-term AND: for a recognised tokenized field F and a query     *)
(* whose normalisation yields at least one token, the set of documents     *)
(* retrieveDocuments returns is exactly the set of documents that occur in *)
(* F's posting list of every token of the query.                           *)
(***************************************************************************)
C3_MultiTermAnd ==
    ( /\ SearchReturned
      /\ ret.attr \in Attributes \ { "version" }
      /\ processText(ret.text).err = ErrNil
      /\ Tokens(ret.text) # {} )
    => /\ ret.err = ErrNil
       /\ DocSet(ret.docs) =
            { d \in Docs :
                \A t \in Tokens(ret.text) :
                    d \in Posting(AttrStore[ret.attr], t) }

\* A query of two tokens returned a document while another document, in
\* the posting list of one token but not of the other, was left out.
C3_Witness ==
    /\ SearchReturned
    /\ ret.attr \in Attributes \ { "version" }
    /\ Cardinality(Tokens(ret.text)) >= 2
    /\ ret.docs # << >>
    /\ \E d \in Docs :
         /\ d \notin DocSet(ret.docs)
         /\ \E t \in Tokens(ret.text) : d \in Posting(AttrStore[ret.attr], t)

(***************************************************************************)
(* C4.  Exact-match version field: retrieveDocuments("version", q) uses q  *)
(* verbatim as one key, without error, and returns exactly the stored      *)
(* documents whose version string equals q character for character: none  *)
(* for a proper prefix or any other string.                                *)
(***************************************************************************)
C4_VersionExactMatch ==
    (SearchReturned /\ ret.attr = "version") =>
        /\ ret.err = ErrNil
        /\ DocSet(ret.docs) =
             { d \in Stored : Content(d).Version = ret.text }

\* "1.0" was searched while only a document of version "1.0.0" is stored.
C4_Witness ==
    /\ SearchReturned
    /\ ret.attr = "version"
    /\ ret.text = <<"1",".","0">>
    /\ ret.docs = << >>
    /\ Stored # {}
    /\ \A d \in Stored : Content(d).Version = <<"1",".","0",".","0">>

(***************************************************************************)
(* C5.  Multi-field lookup is the AND of its fields: for a mapping with at *)
(* least one entry, all of whose keys are recognised, the set of documents *)
(* LookupMetadata returns is the intersection over its fields f of the set *)
(* retrieveDocuments(f, m[f]) returns (so it is empty as soon as one       *)
(* field's search is empty).                                               *)
(***************************************************************************)
C5_LookupIsAndOfFields ==
    ( /\ LookupReturned
      /\ DOMAIN ret.terms # {}
      /\ DOMAIN ret.terms \subseteq Attributes )
    => DocSet(ret.docs) =
         { d \in Docs :
             \A f \in DOMAIN ret.terms :
               \A r \in retrieveDocuments(index, f, ret.terms[f]) :
                 d \in DocSet(r.docs) }

\* A lookup on two fields returned some documents, and fewer than one of
\* its fields alone matches.
C5_Witness ==
    /\ LookupReturned
    /\ Cardinality(DOMAIN ret.terms) = 2
    /\ DOMAIN ret.terms \subseteq Attributes
    /\ ret.docs # << >>
    /\ \E f \in DOMAIN ret.terms :
         \E r \in retrieveDocuments(index, f, ret.terms[f]) :
           DocSet(r.docs) \ DocSet(ret.docs) # {}

(***************************************************************************)
(* C6.  Lookup monotonicity as claimed: for every mapping m, the empty one *)
(* included, every recognised field f not in m and every query text, the   *)
(* list LookupMetadata(m plus f) returns holds no document more times than *)
(* the list LookupMetadata(m) returns holds it.                            *)
(* (The code contradicts this: see C6_LookupShrinksNonEmpty.)              *)
(***************************************************************************)
\* Number of times md occurs in slice.
Count(md, slice) == Cardinality({ i \in DOMAIN slice : slice[i] = md })

\* The mapping m with one more field.
WithField(m, f, q) == [k \in DOMAIN m \cup {f} |-> IF k = f THEN q ELSE m[k]]

\* The recognised fields a lookup of the model can add to the mapping m.
MoreFields(m) ==
    IF Cardinality(DOMAIN m) < MaxKeys
    THEN (LookupAttrs \cap Attributes) \ DOMAIN m
    ELSE {}

C6_LookupShrinksAsLists ==
    LookupReturned =>
        \A f \in MoreFields(ret.terms), q \in LookupTexts :
          \A r \in LookupMetadata(index, WithField(ret.terms, f, q)) :
            \A d \in Docs : Count(d, r.docs) <= Count(d, ret.docs)

(***************************************************************************)
(* C6, amended.  For every mapping m with at least one entry, every        *)
(* recognised field f not in m and every query text, every document in the *)
(* list LookupMetadata(m plus f) returns is in the list LookupMetadata(m)  *)
(* returns: adding a field to a non-empty lookup can only shrink or        *)
(* preserve the set of documents returned.                                 *)
(***************************************************************************)
C6_LookupShrinksNonEmpty ==
    (LookupReturned /\ DOMAIN ret.terms # {}) =>
        \A f \in MoreFields(ret.terms), q \in LookupTexts :
          \A r \in LookupMetadata(index, WithField(ret.terms, f, q)) :
            DocSet(r.docs) \subseteq DocSet(ret.docs)

\* A lookup on one field returned two documents, and one more field
\* narrows the result to a smaller, non-empty set.
C6_Witness ==
    /\ LookupReturned
    /\ Cardinality(DOMAIN ret.terms) = 1
    /\ Cardinality(DocSet(ret.docs)) = 2
    /\ \E f \in MoreFields(ret.terms), q \in LookupTexts :
         \E r \in LookupMetadata(index, WithField(ret.terms, f, q)) :
           /\ r.docs # << >>
           /\ DocSet(r.docs) # DocSet(ret.docs)

(***************************************************************************)
(* C7.  Unknown field rejection: retrieveDocuments with a field name that  *)
(* is not one of the nine recognised names returns an error and no         *)
(* document; LookupMetadata returns an error and no document whenever a    *)
(* key of its mapping is not a recognised name, whatever the other keys,   *)
(* the order the keys are visited in and the store; the GET handler        *)
(* answers such a request with 400 Bad Request.                            *)
(***************************************************************************)
C7_UnknownFieldRejected ==
    /\ (SearchReturned /\ ret.attr \notin Attributes)
         => (ret.err = ErrUnknownAttribute /\ ret.docs = << >>)
    /\ (LookupReturned /\ ~(DOMAIN ret.terms \subseteq Attributes))
         => (ret.err # ErrNil /\ ret.docs = << >>)
    /\ (pc = "done" /\ ret.op = "GET"
            /\ ~(DOMAIN ret.terms \subseteq Attributes))
         => (ret.status = StatusBadRequest /\ ret.docs = << >>)

\* A GET with an unknown key beside a title term that matches a stored
\* document was answered 400.
C7_Witness ==
    /\ pc = "done"
    /\ ret.op = "GET"
    /\ DOMAIN ret.terms = { "title", "nosuch" }
    /\ \E t \in Tokens(ret.terms["title"]) : Posting("title", t) # {}
    /\ ret.status = StatusBadRequest

(***************************************************************************)
(* C8.  No match is never an error, as claimed: for any recognised field   *)
(* name and any query whose normalisation succeeds, retrieveDocuments      *)
(* returns a nil error, and when the query normalises to zero tokens or    *)
(* one of its tokens has no posting list in that field, the returned list  *)
(* is empty.  (The code contradicts this on the version field: see         *)
(* C8_NoMatchIsEmptyNotError.)                                             *)
(***************************************************************************)
\* The query has no token, or a token without a posting list in the store.
SomeTokenUnindexed(store, text) ==
    \/ Tokens(text) = {}
    \/ \E t \in Tokens(text) : t \notin DOMAIN index[store]

C8_NoMatchAnyField ==
    ( /\ SearchReturned
      /\ ret.attr \in Attributes
      /\ processText(ret.text).err = ErrNil )
    => /\ ret.err = ErrNil
       /\ SomeTokenUnindexed(AttrStore[ret.attr], ret.text)
            => ret.docs = << >>

(***************************************************************************)
(* C8, amended.  For any recognised field name and any query whose         *)
(* normalisation succeeds, retrieveDocuments returns a nil error; for a    *)
(* tokenized field (any field but version) the returned list is empty when *)
(* the query normalises to zero tokens or one of its tokens has no posting *)
(* list in that field; for the version field, whose query is not           *)
(* normalised, the list is empty when the version store has no posting     *)
(* list under the query text itself.                                       *)
(***************************************************************************)
C8_NoMatchIsEmptyNotError ==
    ( /\ SearchReturned
      /\ ret.attr \in Attributes
      /\ processText(ret.text).err = ErrNil )
    => /\ ret.err = ErrNil
       /\ ( /\ ret.attr # "version"
            /\ SomeTokenUnindexed(AttrStore[ret.attr], ret.text) )
            => ret.docs = << >>
       /\ (ret.attr = "version" /\ ret.text \notin DOMAIN index.version)
            => ret.docs = << >>

\* A query of two tokens, one indexed in the field and one not, returned
\* nothing and no error.
C8_Witness ==
    /\ SearchReturned
    /\ ret.attr \in Attributes \ { "version" }
    /\ \E t \in Tokens(ret.text) : Posting(AttrStore[ret.attr], t) # {}
    /\ \E t \in Tokens(ret.text) : t \notin DOMAIN index[AttrStore[ret.attr]]
    /\ ret.err = ErrNil
    /\ ret.docs = << >>

(***************************************************************************)
(* C9.  All-or-nothing indexing, as claimed: if AddMetadata(D) returns an  *)
(* error, every posting store of every field is identical to its state     *)
(* before the call.  (The code contradicts this.)                          *)
(***************************************************************************)
C9_FailedAddLeavesIndex ==
    [][ (ret'.op = "AddMetadata" /\ ret'.err # ErrNil) => index' = index ]_vars

(***************************************************************************)
(* C10.  Reads do not mutate: every call of retrieveDocuments and of       *)
(* LookupMetadata, whatever it returns (documents, an empty list, an       *)
(* error) and whether or not the queried keys exist, leaves every posting  *)
(* store with the same keys and the same lists.                            *)
(***************************************************************************)
C10_ReadsDoNotMutate ==
    [][ ret'.op \in { "retrieveDocuments", "LookupMetadata" }
            => index' = index ]_vars

\* A search on a non-empty store for a token the field has no key for
\* has returned.
C10_Witness ==
    /\ SearchReturned
    /\ ret.attr \in Attributes \ { "version" }
    /\ ret.err = ErrNil
    /\ index[AttrStore[ret.attr]] # EmptyMap
    /\ \E t \in Tokens(ret.text) : t \notin DOMAIN index[AttrStore[ret.attr]]

(***************************************************************************)
(* C11.  Stopword removal is complete and case-insensitive, as claimed:    *)
(* for each of the 15 listed words (a, and, be, for, have, I, in, it, not, *)
(* of, on, that, the, to, with) in any capitalisation, the sequence that   *)
(* tokenize, toLowercase and removeCommonWords produce from a text holds   *)
(* no token equal to that word ignoring case, and holds every other token, *)
(* in the original order, duplicates retained.  (The code contradicts this *)
(* for the word "I".)                                                      *)
(***************************************************************************)
\* The 15 listed words, ignoring case.
ListedWords == Range(toLowercase(
    << <<"a">>, <<"a","n","d">>, <<"b","e">>, <<"f","o","r">>,
       <<"h","a","v","e">>, <<"I">>, <<"i","n">>, <<"i","t">>,
       <<"n","o","t">>, <<"o","f">>, <<"o","n">>, <<"t","h","a","t">>,
       <<"t","h","e">>, <<"t","o">>, <<"w","i","t","h">> >>))

IsListedWord(token) == toLowercase(<< token >>)[1] \in ListedWords

C11_StopwordsRemovedAnyCase ==
    SearchReturned =>
        LET lowered == toLowercase(tokenize(ret.text))
            kept == removeCommonWords(lowered)
        IN  /\ \A i \in DOMAIN kept : ~IsListedWord(kept[i])
            /\ kept = SelectSeq(lowered, LAMBDA t : ~IsListedWord(t))

(***************************************************************************)
(* C12.  ValidateMetadata runs its checks in the order title present,      *)
(* version present, version a semantic version, maintainer list non-empty, *)
(* per maintainer in list order (name present, email present, email        *)
(* well-formed, email domain resolvable), company present, website         *)
(* present, website a valid URL, source present, source a valid URL,       *)
(* license present, description present: it returns the message of the     *)
(* first check the document fails, nil exactly when it fails none, and     *)
(* leaves the store and the document as they were.                         *)
(***************************************************************************)
\* The part of an email address after its first "@".
EmailDomain(e) ==
    LET at == IndexByte(e, "@") IN
    IF at = 0 THEN << >> ELSE SubSeq(e, at + 1, Len(e))

\* The four checks of one maintainer: whether it fails each, and the message.
MaintainerChecks(mt) ==
    << [fails |-> mt.Name = << >>, msg |-> ErrMaintainerName],
       [fails |-> mt.Email = << >>, msg |-> ErrMaintainerEmail],
       [fails |-> ~emailRegexMatch(mt.Email), msg |-> ErrEmailFormat],
       [fails |-> ~LookupMXOk(EmailDomain(mt.Email)), msg |-> ErrEmailInvalid] >>

RECURSIVE AllMaintainerChecks(_)
AllMaintainerChecks(ms) ==
    IF ms = << >> THEN << >>
    ELSE MaintainerChecks(Head(ms)) \o AllMaintainerChecks(Tail(ms))

\* Every check of a document, in the claimed order.
ClaimedChecks(m) ==
    << [fails |-> m.Title = << >>, msg |-> ErrTitle],
       [fails |-> m.Version = << >>, msg |-> ErrVersion],
       [fails |-> ~NewVersionOk(m.Version), msg |-> ErrSemVer],
       [fails |-> m.Maintainers = << >>, msg |-> ErrMaintainers] >>
    \o AllMaintainerChecks(m.Maintainers)
    \o << [fails |-> m.Company = << >>, msg |-> ErrCompany],
          [fails |-> m.Website = << >>, msg |-> ErrWebsite],
          [fails |-> ~ParseRequestURIOk(m.Website), msg |-> ErrWebsiteURL],
          [fails |-> m.Source = << >>, msg |-> ErrSource],
          [fails |-> ~ParseRequestURIOk(m.Source), msg |-> ErrSourceURL],
          [fails |-> m.License = << >>, msg |-> ErrLicense],
          [fails |-> m.Description = << >>, msg |-> ErrDescription] >>

FailedChecks(m) ==
    LET checks == ClaimedChecks(m) IN
    { i \in DOMAIN checks : checks[i].fails }

FirstFailure(m) ==
    LET checks == ClaimedChecks(m)
        failed == { i \in DOMAIN checks : checks[i].fails }
    IN  IF failed = {} THEN ErrNil
        ELSE checks[CHOOSE i \in failed : \A j \in failed : i <= j].msg

C12_ValidateFirstFailure ==
    [][ (pc = "idle" /\ ret'.op = "ValidateMetadata") =>
        /\ ret'.err = FirstFailure(ret'.doc)
        /\ (ret'.err = ErrNil) <=> (FailedChecks(ret'.doc) = {})
        /\ index' = index
        /\ ret'.docAfter = ret'.doc ]_vars

\* Validation of a document failing several checks, the first of them a
\* maintainer's unresolvable email domain, on a store holding documents.
C12_Witness ==
    /\ ret.op = "ValidateMetadata"
    /\ Cardinality(FailedChecks(ret.doc)) >= 2
    /\ ret.err = ErrEmailInvalid
    /\ index # NewStorage

(***************************************************************************)
(* C13.  Adjacent-duplicate suppression: an AddMetadata call that returns  *)
(* nil appends the document to the posting list of each token of its       *)
(* tokenized field values if and only if that list is empty or does not    *)
(* end with this document, and changes no other list of a tokenized store; *)
(* it appends the document to the list of its version string in every      *)
(* case.  No posting list of a tokenized store ever holds the same         *)
(* document in two adjacent positions.                                     *)
(***************************************************************************)
\* The tokens of the values of document m that are indexed into a store.
TokensInto(m, store) ==
    UNION { Tokens(v[2]) : v \in { x \in TokenizedValues(m) : x[1] = store } }

NoAdjacentDuplicates ==
    \A store \in TokenizedStores : \A k \in DOMAIN index[store] :
        \A i \in 1 .. (Len(index[store][k]) - 1) :
            index[store][k][i] # index[store][k][i + 1]

C13_AdjacentDuplicatesSuppressed ==
    [][ /\ NoAdjacentDuplicates'
        /\ (pc = "idle" /\ ret'.op = "AddMetadata" /\ ret'.err = ErrNil) =>
             LET md == ret'.md
                 m == Content(md)
             IN  /\ \A store \in TokenizedStores :
                        \A k \in DOMAIN index'[store] :
                            LET old == MapGet(index[store], k) IN
                            index'[store][k] =
                                IF k \notin TokensInto(m, store) THEN old
                                ELSE IF old = << >> \/ old[Len(old)] # md
                                     THEN Append(old, md)
                                     ELSE old
                 /\ index'.version[m.Version] =
                        Append(MapGet(index.version, m.Version), md) ]_vars

\* The same document has been added twice in a row: its title token's list
\* holds it once, its version's list twice.
C13_Witness ==
    /\ AddReturnedNil
    /\ Len(calls) = 2 /\ calls[1] = calls[2]
    /\ index.title[<<"f","o","x">>] = << ret.md >>
    /\ index.version[Content(ret.md).Version] = << ret.md, ret.md >>

(***************************************************************************)
(* C14.  When no document has been passed to AddMetadata more than once,   *)
(* every posting list of every store holds each document at most once      *)
(* (also for values that repeat a token and for maintainers that share     *)
(* one), and a search for a single token returns each document of that     *)
(* token's list exactly once.                                              *)
(***************************************************************************)
NoRepeat(slice) ==
    \A i, j \in DOMAIN slice : i # j => slice[i] # slice[j]

\* The one key a search looks up, when it looks up exactly one.
SingleKey(attr, text) ==
    IF attr = "version" THEN { text }
    ELSE IF Cardinality(Tokens(text)) = 1 THEN Tokens(text) ELSE {}

C14_SubmittedOnceListedOnce ==
    NoRepeat(calls) =>
        /\ \A store \in Stores : \A k \in DOMAIN index[store] :
               NoRepeat(index[store][k])
        /\ (SearchReturned /\ ret.err = ErrNil /\ ret.attr \in Attributes) =>
               \A k \in SingleKey(ret.attr, ret.text) :
                   /\ NoRepeat(ret.docs)
                   /\ DocSet(ret.docs) = Posting(AttrStore[ret.attr], k)

\* Two different documents whose two maintainers share the token "fox" have
\* been added, and a search of the maintainer names for it has returned both.
C14_Witness ==
    /\ SearchReturned
    /\ ret.attr = "maintainer_name"
    /\ ret.text = <<"f","o","x">>
    /\ Len(calls) = 2 /\ NoRepeat(calls)
    /\ Len(ret.docs) = 2

(***************************************************************************)
(* C15.  Deterministic results, as claimed: for a fixed store and a fixed  *)
(* query, every outcome a Search or Lookup can have (whatever the order in *)
(* which the maps of tokens and of fields are ranged over) is the same     *)
(* list, with the same documents, multiplicities and order, also when a    *)
(* document was submitted more than once.  (The code contradicts this.)    *)
(***************************************************************************)
C15_ResultsDeterministic ==
    /\ SearchReturned =>
           \A r \in retrieveDocuments(index, ret.attr, ret.text) :
               r.docs = ret.docs
    /\ LookupReturned =>
           \A r \in LookupMetadata(index, ret.terms) :
               r.docs = ret.docs

(***************************************************************************)
(* C16.  Arrival order: every posting list holds its entries in the order  *)
(* of the AddMetadata calls that appended them (an entry of an earlier     *)
(* call precedes every entry of a later call), and the list a Search or a  *)
(* Lookup returns holds its documents in that same order: each of these    *)
(* lists is the sequence of calls with some of the calls left out.         *)
(***************************************************************************)
\* sub is seq with some of its elements left out.
RECURSIVE IsSubsequence(_, _)
IsSubsequence(sub, seq) ==
    IF sub = << >> THEN TRUE
    ELSE IF seq = << >> THEN FALSE
    ELSE IF Head(sub) = Head(seq)
         THEN \/ IsSubsequence(Tail(sub), Tail(seq))
              \/ IsSubsequence(sub, Tail(seq))
    ELSE IsSubsequence(sub, Tail(seq))

C16_ArrivalOrder ==
    /\ \A store \in Stores : \A k \in DOMAIN index[store] :
           IsSubsequence(index[store][k], calls)
    /\ ((SearchReturned \/ LookupReturned) /\ ret.err = ErrNil) =>
           IsSubsequence(ret.docs, calls)

\* Two documents were added, the one with the greater pointer first, and a
\* search has returned both.
C16_Witness ==
    /\ SearchReturned
    /\ Len(ret.docs) = 2
    /\ ret.docs[1] > ret.docs[2]
    /\ calls = ret.docs

(***************************************************************************)
(* C17.  Identity, not content: when two distinct documents with the same  *)
(* value in every field have each been added once, each of them is in the  *)
(* posting list of every token of their values and under their version,    *)
(* exactly once (the second is not suppressed as a duplicate of the        *)
(* first), and every list a Search or Lookup returns holds both of them    *)
(* once each or neither: they are never collapsed into one entry.  (The    *)
(* lists are looked at between calls: a call that has returned leaves the  *)
(* store as it is until the next call.)                                    *)
(***************************************************************************)
AddedOnce(md) == Cardinality({ i \in DOMAIN calls : calls[i] = md }) = 1

\* The pairs of distinct documents of equal content, each added once.
Twins ==
    { p \in Range(calls) \X Range(calls) :
        /\ p[1] # p[2]
        /\ AddedOnce(p[1]) /\ AddedOnce(p[2])
        /\ Content(p[1]) = Content(p[2]) }

\* Normalisation of every tokenized value of m succeeds.
Indexable(m) ==
    \A v \in TokenizedValues(m) : processText(v[2]).err = ErrNil

C17_IdentityNotContent ==
    \A p \in Twins :
        /\ (pc = "idle" /\ Indexable(Content(p[1]))) =>
               /\ \A v \in TokenizedValues(Content(p[1])) :
                      \A t \in Tokens(v[2]) :
                          /\ Count(p[1], MapGet(index[v[1]], t)) = 1
                          /\ Count(p[2], MapGet(index[v[1]], t)) = 1
               /\ Count(p[1], MapGet(index.version, Content(p[1]).Version)) = 1
               /\ Count(p[2], MapGet(index.version, Content(p[1]).Version)) = 1
        /\ ((SearchReturned \/ LookupReturned) /\ ret.err = ErrNil) =>
               /\ Count(p[1], ret.docs) = Count(p[2], ret.docs)
               /\ Count(p[1], ret.docs) <= 1

\* Two documents of equal content were added, and a search matching their
\* description has returned two entries, one for each.
C17_Witness ==
    /\ SearchReturned
    /\ ret.attr = "description"
    /\ Twins # {}
    /\ Len(ret.docs) = 2
    /\ ret.docs[1] # ret.docs[2]
    /\ Content(ret.docs[1]) = Content(ret.docs[2])

(***************************************************************************)
(* C18.  The index is append-only: in every step (AddMetadata succeeding   *)
(* or failing, Search, Lookup, validation, a request of any method) every  *)
(* key of every store stays, and its posting list before the step is a     *)
(* prefix of its list after the step.  Therefore a document a Search       *)
(* returns before a step is returned by the same Search after it.          *)
(***************************************************************************)
IsPrefix(s, t) == Len(s) <= Len(t) /\ SubSeq(t, 1, Len(s)) = s

C18_AppendOnly ==
    [][ \A store \in Stores :
            /\ DOMAIN index[store] \subseteq DOMAIN index'[store]
            /\ \A k \in DOMAIN index[store] :
                   IsPrefix(index[store][k], index'[store][k])
            /\ index'[store] # index[store] =>
                   \A q \in SearchInputs :
                       \A r1 \in retrieveDocuments(index, StoreAttr(store), q) :
                       \A r2 \in retrieveDocuments(index', StoreAttr(store), q) :
                           /\ r2.err = r1.err
                           /\ DocSet(r1.docs) \subseteq DocSet(r2.docs) ]_vars

\* A second successful add has lengthened a list the first one made.
C18_Witness ==
    /\ AddReturnedNil
    /\ Len(calls) = 2
    /\ \E k \in DOMAIN index.description : Len(index.description[k]) = 2

(***************************************************************************)
(* C19.  Validation gates indexing: the POST handler calls AddMetadata     *)
(* exactly when the body was read, was YAML and holds a document that      *)
(* fails no check of ValidateMetadata; otherwise it answers 400 and every  *)
(* store is as before; when AddMetadata is called and fails it answers     *)
(* 500; a request with a method other than GET and POST is answered 405    *)
(* and changes nothing.                                                    *)
(***************************************************************************)
C19_ValidationGatesIndexing ==
    [][ /\ (pc = "idle" /\ ret'.op = "POST") =>
               LET accepted == /\ ret'.body = "yaml"
                               /\ FailedChecks(ret'.doc) = {}
               IN  /\ ret'.called <=> accepted
                   /\ ~accepted =>
                          /\ ret'.status = StatusBadRequest
                          /\ index' = index
                   /\ (accepted /\ ret'.err # ErrNil) =>
                          ret'.status = StatusInternalServerError
                   /\ ret'.status = StatusInternalServerError =>
                          (accepted /\ ret'.err # ErrNil)
        /\ (pc = "idle" /\ ret'.method \notin { "", "GET", "POST" }) =>
               /\ ret'.status = StatusMethodNotAllowed
               /\ index' = index ]_vars

\* A POST of a document without company was answered 400 on a store that
\* holds documents.
C19_Witness ==
    /\ ret.op = "POST"
    /\ ret.body = "yaml"
    /\ ret.err = ErrCompany
    /\ ret.status = StatusBadRequest
    /\ index # NewStorage

(***************************************************************************)
(* C20.  Index atomicity against concurrent queries, as claimed: when      *)
(* AddMetadata(D) runs concurrently with Search and Lookup calls, no query *)
(* that returns D finds the store in a state where D is in the posting     *)
(* store of one of its fields but not yet in the posting store of another  *)
(* of its fields.  (The code contradicts this.)                            *)
(***************************************************************************)
\* D is in the version list of its version and in the list of every token
\* of every tokenized value it has.
FullyIndexed(md) ==
    /\ md \in DocSet(MapGet(index.version, Content(md).Version))
    /\ \A v \in TokenizedValues(Content(md)) :
           \A t \in Tokens(v[2]) : md \in Posting(v[1], t)

C20_QueriesSeeWholeDocuments ==
    ((SearchReturned \/ LookupReturned) /\ ret.err = ErrNil) =>
        \A md \in DocSet(ret.docs) \cap DOMAIN inflight : FullyIndexed(md)

(***************************************************************************)
(* C21.  No lost append under concurrent submissions, as claimed: when two *)
(* AddMetadata calls for distinct documents D1 and D2 have run             *)
(* concurrently and both have returned without error, the posting list of  *)
(* every key they share (a token of the same tokenized field, or the       *)
(* version string) holds both D1 and D2.  (The code contradicts this.)     *)
(***************************************************************************)
\* The keys under which a document is indexed, each with its store.
KeysOf(m) ==
    { << "version", m.Version >> }
    \cup UNION { { << v[1], t >> : t \in Tokens(v[2]) } :
                 v \in TokenizedValues(m) }

ReturnedNil(md) ==
    /\ md \in DOMAIN inflight
    /\ inflight[md].phase = "returned"
    /\ inflight[md].err = ErrNil

C21_NoLostAppend ==
    \A d1, d2 \in DOMAIN inflight :
        (d1 # d2 /\ ReturnedNil(d1) /\ ReturnedNil(d2)) =>
            \A k \in KeysOf(Content(d1)) \cap KeysOf(Content(d2)) :
                { d1, d2 } \subseteq Posting(k[1], k[2])

====
